---- MODULE Spec2Model ----
(***************************************************************************)
(* A model of the training / evaluation control loop of the FCN8s class    *)
(* (src/fcn8s_tensorflow.py): train, _evaluate, evaluate, predict, save    *)
(* and the streaming metrics they drive.  The computation graph is         *)
(* abstracted to what the control loop observes of it: the global step,    *)
(* the loss of a batch, and the three streaming metrics' accumulators.     *)
(***************************************************************************)
EXTENDS Integers, Sequences, FiniteSets, TLC

(* ------------------------------ bounds --------------------------------- *)

\* Largest `epochs` argument of train.
MaxEpochs == 2
\* Largest `steps_per_epoch` argument of train.
MaxSteps == 2
\* Largest `num_batches` argument of evaluate and `val_steps` argument of train.
MaxBatches == 2
\* No train call is started that would take the global step beyond this.
MaxGlobalStep == 2
\* The number of calls made on the model.
MaxCalls == 2

(* --------------------------- exact fractions --------------------------- *)
(* Floats are modelled as exact non-negative fractions <<n, d>> in lowest  *)
(* terms; <<0, 0>> stands for Python's None.                               *)

None == <<0, 0>>

RECURSIVE GCD(_, _)
GCD(a, b) == IF b = 0 THEN a ELSE GCD(b, a % b)

Rat(n, d) == LET g == GCD(n, d) IN <<n \div g, d \div g>>

\* a < b, comparing integer parts first so that no product leaves 32 bits.
RLt(a, b) ==
    LET qa == a[1] \div a[2]
        qb == b[1] \div b[2]
    IN  IF qa # qb THEN qa < qb
        ELSE (a[1] % a[2]) * b[2] < (b[1] % b[2]) * a[2]

RAdd(a, b) == Rat(a[1] * b[2] + b[1] * a[2], a[2] * b[2])

RECURSIVE SeqSum(_)
SeqSum(s) == IF s = <<>> THEN 0 ELSE Head(s) + SeqSum(Tail(s))

Range(s) == {s[i] : i \in 1..Len(s)}

(* ------------------------------ the graph ------------------------------ *)

\* num_classes, the constructor's argument.
NumClasses == 2

\* What the graph computes for one batch pulled from a generator: the number
\* of pixels, self.loss (the mean cross entropy over the batch's pixels) and
\* the confusion matrix of labels_argmax (row) against predictions_argmax
\* (column).
BatchA == [n |-> 1, loss |-> 1, cm |-> <<<<1, 0>>, <<0, 0>>>>]
BatchB == [n |-> 3, loss |-> 3, cm |-> <<<<1, 1>>, <<0, 1>>>>]
Batches == {BatchA, BatchB}

\* learning_rate_schedule: a caller-supplied function of the global step.
LearningRateSchedules == {"linear", "halving"}
Schedule(s, g) == IF s = "linear" THEN 100 - 10 * g ELSE 64 \div (2 ^ g)

\* The initial best value of a minimised quantity, 99999999.9.
BestInitLow == <<999999999, 10>>
\* The initial best value of a maximised metric, 0.0.
BestInitHigh == <<0, 1>>

(* -------------------------- streaming metrics -------------------------- *)

\* The local variables of the three tf.metrics after metrics_reset_op.
ZeroAccum ==
    [loss_total |-> 0, loss_count |-> 0,
     cm |-> [i \in 1..NumClasses |-> [j \in 1..NumClasses |-> 0]],
     acc_total |-> 0, acc_count |-> 0]

\* Faulty variant of the reset: the local variables keep their values.
MetricsNotReset(acc) == acc

MetricsResetOp(acc) == ZeroAccum

Correct(b) == SeqSum([c \in 1..NumClasses |-> b.cm[c][c]])

\* Faulty variant of the update ops: the accuracy is folded as one value
\* per batch, like the loss, and not as one value per pixel.
MetricUpdateOpsPerBatch(names, acc, b) ==
    [loss_total |-> IF "loss" \in Range(names) THEN acc.loss_total + b.loss
                    ELSE acc.loss_total,
     loss_count |-> IF "loss" \in Range(names) THEN acc.loss_count + 1
                    ELSE acc.loss_count,
     cm         |-> IF "mean_iou" \in Range(names)
                    THEN [i \in 1..NumClasses |->
                            [j \in 1..NumClasses |-> acc.cm[i][j] + b.cm[i][j]]]
                    ELSE acc.cm,
     acc_total  |-> IF "accuracy" \in Range(names) THEN acc.acc_total + Correct(b)
                    ELSE acc.acc_total,
     acc_count  |-> IF "accuracy" \in Range(names) THEN acc.acc_count + 1
                    ELSE acc.acc_count]

\* sess.run(self.metric_update_ops): only the tracked metrics' update ops run.
\* tf.metrics.mean(self.loss) folds the scalar batch loss with weight 1;
\* tf.metrics.accuracy folds one 0/1 value per pixel; tf.metrics.mean_iou
\* adds the batch's confusion matrix.
MetricUpdateOps(names, acc, b) ==
    [loss_total |-> IF "loss" \in Range(names) THEN acc.loss_total + b.loss
                    ELSE acc.loss_total,
     loss_count |-> IF "loss" \in Range(names) THEN acc.loss_count + 1
                    ELSE acc.loss_count,
     cm         |-> IF "mean_iou" \in Range(names)
                    THEN [i \in 1..NumClasses |->
                            [j \in 1..NumClasses |-> acc.cm[i][j] + b.cm[i][j]]]
                    ELSE acc.cm,
     acc_total  |-> IF "accuracy" \in Range(names) THEN acc.acc_total + Correct(b)
                    ELSE acc.acc_total,
     acc_count  |-> IF "accuracy" \in Range(names) THEN acc.acc_count + b.n
                    ELSE acc.acc_count]

\* The value tensor of tf.metrics.mean: total / count, 0 when count is 0.
SafeDiv(total, count) == IF count = 0 THEN <<0, 1>> ELSE Rat(total, count)

RowSum(cm, c) == SeqSum([j \in 1..NumClasses |-> cm[c][j]])
ColSum(cm, c) == SeqSum([i \in 1..NumClasses |-> cm[i][c]])
Union(cm, c) == RowSum(cm, c) + ColSum(cm, c) - cm[c][c]

RECURSIVE IouSum(_, _)
IouSum(cm, c) ==
    IF c = 0 THEN <<0, 1>>
    ELSE RAdd(IouSum(cm, c - 1), SafeDiv(cm[c][c], Union(cm, c)))

\* Faulty variant of the mean IoU: the mean is taken over all classes, those
\* without label and prediction counting as IoU 0.
MeanIouAllClasses(cm) ==
    LET s == IouSum(cm, NumClasses)
    IN  Rat(s[1], s[2] * NumClasses)

\* The value tensor of tf.metrics.mean_iou: the mean of TP / (TP + FP + FN)
\* over the classes whose union is not zero, 0 when there is none.
MeanIou(cm) ==
    LET valid == Cardinality({c \in 1..NumClasses : Union(cm, c) # 0})
        s == IouSum(cm, NumClasses)
    IN  IF valid = 0 THEN <<0, 1>> ELSE Rat(s[1], s[2] * valid)

MetricValue(name, acc) ==
    CASE name = "loss"     -> SafeDiv(acc.loss_total, acc.loss_count)
      [] name = "mean_iou" -> MeanIou(acc.cm)
      [] name = "accuracy" -> SafeDiv(acc.acc_total, acc.acc_count)

\* sess.run(self.metric_value_tensors)
MetricValueTensors(names, acc) == [i \in 1..Len(names) |-> MetricValue(names[i], acc)]

(* --------------------------- tracked metrics --------------------------- *)

MetricKinds == {"loss", "mean_iou", "accuracy"}

\* The metric names `_initialize_metrics` appends, in its fixed order.
InitMetricNames(metrics) ==
    (IF "loss" \in metrics THEN <<"loss">> ELSE <<>>)
    \o (IF "mean_iou" \in metrics THEN <<"mean_iou">> ELSE <<>>)
    \o (IF "accuracy" \in metrics THEN <<"accuracy">> ELSE <<>>)

InitBestMetricValues(metrics) ==
    (IF "loss" \in metrics THEN <<BestInitLow>> ELSE <<>>)
    \o (IF "mean_iou" \in metrics THEN <<BestInitHigh>> ELSE <<>>)
    \o (IF "accuracy" \in metrics THEN <<BestInitHigh>> ELSE <<>>)

\* list.index: the first position of x in s, 0 when absent (ValueError).
Index(s, x) ==
    IF x \in Range(s) THEN CHOOSE i \in 1..Len(s) : s[i] = x /\ \A j \in 1..(i - 1) : s[j] # x
    ELSE 0

(* -------------------------------- state -------------------------------- *)

VARIABLES
    \* the model object's fields and the graph's variables
    global_step,          \* the graph's global step variable
    g_step,               \* self.g_step, -1 for None
    variables_updated,    \* self.variables_updated
    eval_dataset,         \* self.eval_dataset, "none" for None
    metric_names,         \* self.metric_names (the update ops and value tensors
                          \* are appended in step with it)
    metric_values,        \* self.metric_values
    best_metric_values,   \* self.best_metric_values
    training_loss,        \* self.training_loss
    best_training_loss,   \* self.best_training_loss
    accum,                \* the metrics' local variables
    artifacts,            \* the names of the saved models written so far in this call
    \* the running call
    pc,                   \* where the running call stands
    call,                 \* "none", "train" or "evaluate"
    cfg,                  \* the call's arguments
    err,                  \* the exception that ended the call, "none" otherwise
    epoch,
    train_step,
    learning_rate,
    loss_history,
    data_generator,       \* the generator _evaluate pulls from
    num_batches,
    eval_step,
    \* observations of the running call
    g_entry,              \* the global step when the call was entered
    steps_done,           \* training steps executed
    loss_log,             \* the step losses in order
    fed,                  \* the learning rate fed to the last step and the global step before it
    schedule_calls,       \* calls of learning_rate_schedule
    calls,                \* calls made on the model so far
    pulls,                \* batches pulled, per generator and per purpose
    eval_log,             \* the batches the current evaluation run has pulled
    eval_runs,            \* evaluation runs started
    evaluated,            \* an evaluation run happened in this epoch
    decision,             \* the checkpoint decision of this epoch
    saved,                \* save wrote a model in this epoch
    trained_since_save,   \* a training step ran since the last model written
                          \* (since construction when none was)
    latest_value          \* per metric, the value its last evaluation gave

object == <<global_step, g_step, variables_updated, eval_dataset, metric_names,
            metric_values, best_metric_values, training_loss, best_training_loss,
            accum, artifacts>>
frame == <<pc, call, cfg, err, epoch, train_step, learning_rate, loss_history,
           data_generator, num_batches, eval_step>>
observed == <<g_entry, steps_done, loss_log, fed, schedule_calls, calls, pulls, eval_log,
              eval_runs, evaluated, decision, saved, trained_since_save,
              latest_value>>
vars == <<object, frame, observed>>

(* ------------------------------ arguments ------------------------------ *)

\* The metric sets a caller passes; "foo" is no metric of the model.
ValidMetricSets == {{}, {"loss"}, {"mean_iou"}, {"accuracy"},
                    {"loss", "mean_iou", "accuracy"}}
InvalidMetricSets == {{"foo"}, {"loss", "foo"}}
MetricSets == ValidMetricSets \cup InvalidMetricSets

\* The defaults of train's arguments; val_steps = 0 stands for None,
\* num_batches is evaluate's argument, and the last four are save's (name = ""
\* stands for None).
DefaultCfg ==
    [epochs |-> 1, steps_per_epoch |-> 1, learning_rate_schedule |-> "linear",
     eval_dataset |-> "train", eval_frequency |-> 1, val_generator |-> FALSE,
     val_steps |-> 0, metrics |-> {}, save_during_training |-> FALSE,
     save_best_only |-> TRUE, save_frequency |-> 1, monitor |-> "loss",
     training_loss_display_averaging |-> MaxSteps, num_batches |-> 0,
     name |-> "", include_global_step |-> TRUE,
     include_last_training_loss |-> TRUE, include_metrics |-> TRUE]

\* Plain training runs: no evaluation, no checkpoint; the schedule and the
\* width of the loss window vary.
PlainConfigs ==
    {[DefaultCfg EXCEPT !.epochs = e, !.steps_per_epoch = s,
                        !.learning_rate_schedule = l,
                        !.training_loss_display_averaging = k] :
        e \in 1..MaxEpochs, s \in 1..MaxSteps, l \in LearningRateSchedules,
        k \in 1..MaxSteps}

\* Runs with evaluation and no checkpoint: the metric set, the evaluation
\* data source and the evaluation frequency vary.
EvaluationConfigs ==
    {[DefaultCfg EXCEPT !.epochs = e, !.steps_per_epoch = s, !.metrics = m,
                        !.eval_dataset = d[1], !.val_generator = d[2],
                        !.val_steps = d[3], !.eval_frequency = f] :
        e \in 1..MaxEpochs, s \in 1..MaxSteps, m \in ValidMetricSets \ {{}},
        d \in {<<"train", FALSE, 0>>} \cup {<<"val", TRUE, n>> : n \in 1..MaxBatches},
        f \in 1..MaxEpochs}

\* Runs with checkpoints: the metric set, the evaluation frequency and the
\* checkpoint arguments vary; the monitor may be missing from the metric set.
CheckpointConfigs ==
    {[DefaultCfg EXCEPT !.epochs = e, !.steps_per_epoch = s, !.metrics = m,
                        !.eval_frequency = f, !.save_during_training = TRUE,
                        !.save_best_only = b[1], !.monitor = b[2],
                        !.save_frequency = q] :
        e \in 1..MaxEpochs, s \in 1..MaxSteps, m \in ValidMetricSets,
        f \in 1..MaxEpochs,
        b \in {<<FALSE, "loss">>} \cup {<<TRUE, k>> : k \in MetricKinds},
        q \in 1..MaxEpochs}

\* Calls that break one or several of the entry checks.
BrokenConfigs ==
    {[DefaultCfg EXCEPT !.eval_dataset = d[1], !.val_generator = d[2],
                        !.val_steps = d[3], !.metrics = m, !.monitor = k] :
        d \in {<<"train", FALSE, 0>>, <<"test", FALSE, 0>>, <<"val", FALSE, 0>>,
               <<"val", TRUE, 0>>, <<"val", FALSE, 1>>, <<"val", TRUE, 1>>},
        m \in {{}, {"loss"}} \cup InvalidMetricSets,
        k \in {"loss", "mean_iou"}}

\* The arguments of train.
TrainConfigs == PlainConfigs \cup EvaluationConfigs \cup CheckpointConfigs
                \cup BrokenConfigs

\* The arguments of evaluate.
EvaluateConfigs ==
    {[DefaultCfg EXCEPT !.metrics = m, !.num_batches = n] :
        m \in MetricSets, n \in 0..MaxBatches}

\* The arguments of save.
SaveConfigs ==
    {[DefaultCfg EXCEPT !.name = n, !.include_global_step = g,
                        !.include_last_training_loss = l, !.include_metrics = m] :
        n \in {"", "final"}, g \in BOOLEAN, l \in BOOLEAN, m \in BOOLEAN}

(* -------------------------------- train -------------------------------- *)

\* Faulty variant of the check of the metric names: every name passes.
AnyMetricNames(metrics) == TRUE

ValidMetricNames(metrics) == metrics \subseteq MetricKinds

\* Faulty variant of the entry checks: the monitor is not checked.
EntryErrorWithoutMonitor(c) ==
    CASE c.eval_dataset \notin {"train", "val"} -> "ValueError: eval_dataset"
      [] c.eval_dataset \in {"train", "val"}
         /\ c.eval_dataset = "val" /\ (~c.val_generator \/ c.val_steps = 0)
            -> "ValueError: val_generator"
      [] OTHER ->
         IF ~ValidMetricNames(c.metrics) THEN "ValueError: metric" ELSE "none"

\* The checks at the entry of train, in their order; "none" when all pass.
TrainEntryError(c) ==
    CASE c.eval_dataset \notin {"train", "val"} -> "ValueError: eval_dataset"
      [] c.eval_dataset \in {"train", "val"}
         /\ c.eval_dataset = "val" /\ (~c.val_generator \/ c.val_steps = 0)
            -> "ValueError: val_generator"
      [] OTHER ->
         IF ~ValidMetricNames(c.metrics) THEN "ValueError: metric"
         ELSE IF c.monitor \notin c.metrics /\ c.monitor # "loss"
              THEN "ValueError: monitor"
         ELSE "none"

Init ==
    /\ global_step = 0
    /\ g_step = -1
    /\ variables_updated = FALSE
    /\ eval_dataset = "none"
    /\ metric_names = <<>>
    /\ metric_values = <<>>
    /\ best_metric_values = <<>>
    /\ training_loss = None
    /\ best_training_loss = BestInitLow
    /\ accum = ZeroAccum
    /\ artifacts = <<>>
    /\ pc = "idle"
    /\ call = "none"
    /\ cfg = DefaultCfg
    /\ err = "none"
    /\ epoch = 0
    /\ train_step = 0
    /\ learning_rate = 0
    /\ loss_history = <<>>
    /\ data_generator = "none"
    /\ num_batches = 0
    /\ eval_step = 0
    /\ g_entry = 0
    /\ steps_done = 0
    /\ loss_log = <<>>
    /\ fed = [lr |-> 0, g |-> 0]
    /\ schedule_calls = 0
    /\ calls = 0
    /\ pulls = [train |-> 0, eval_train |-> 0, eval_val |-> 0, eval_data |-> 0]
    /\ eval_log = <<>>
    /\ eval_runs = 0
    /\ evaluated = FALSE
    /\ decision = "none"
    /\ saved = FALSE
    /\ trained_since_save = FALSE
    /\ latest_value = [m \in MetricKinds |-> None]

\* No call is running.
Idle == pc \in {"idle", "done", "raised"} /\ calls < MaxCalls

\* What a call resets of the previous call's locals and observations.
EnterCall(kind, c) ==
    /\ call' = kind
    /\ cfg' = c
    /\ calls' = calls + 1
    /\ train_step' = 0
    /\ loss_history' = <<>>
    /\ eval_step' = 0
    /\ g_entry' = global_step
    /\ steps_done' = 0
    /\ loss_log' = <<>>
    /\ fed' = [lr |-> 0, g |-> 0]
    /\ pulls' = [train |-> 0, eval_train |-> 0, eval_val |-> 0, eval_data |-> 0]
    /\ eval_log' = <<>>
    /\ eval_runs' = 0
    /\ evaluated' = FALSE
    /\ decision' = "none"
    /\ saved' = FALSE

\* train, from its entry to the head of the first epoch.
TrainCall ==
    /\ Idle
    /\ \E c \in TrainConfigs :
        /\ TrainEntryError(c) = "none" =>
              global_step + c.epochs * c.steps_per_epoch <= MaxGlobalStep
        /\ EnterCall("train", c)
        /\ artifacts' = <<>>
        /\ data_generator' = "none"
        /\ num_batches' = 0
        /\ IF TrainEntryError(c) # "none"
           THEN /\ pc' = "raised"
                /\ err' = TrainEntryError(c)
                /\ epoch' = 0
                /\ learning_rate' = 0
                /\ schedule_calls' = 0
                /\ UNCHANGED <<g_step, eval_dataset, metric_names, best_metric_values>>
           ELSE /\ pc' = "train_step"
                /\ err' = "none"
                /\ eval_dataset' = c.eval_dataset
                /\ g_step' = global_step
                /\ learning_rate' = Schedule(c.learning_rate_schedule, global_step)
                /\ schedule_calls' = 1
                /\ metric_names' = InitMetricNames(c.metrics)
                /\ best_metric_values' = InitBestMetricValues(c.metrics)
                /\ epoch' = 1
    /\ UNCHANGED <<global_step, variables_updated, metric_values, training_loss,
                   best_training_loss, accum, trained_since_save, latest_value>>

\* Faulty variant of train_op: minimize() without global_step, the counter stays.
GlobalStepNotAdvanced(g) == g

\* train_op's effect on the global step variable.
AdvanceGlobalStep(g) == g + 1

\* deque(maxlen=k).append(x)
DequeAppend(h, k, x) ==
    IF Len(h) < k THEN Append(h, x) ELSE Append(Tail(h), x)

\* np.mean(np.array(loss_history))
Mean(h) == Rat(SeqSum(h), Len(h))

\* Faulty variant: the schedule is asked with the step count of before the step.
StaleLearningRate(s, g) == Schedule(s, g - 1)

\* The learning rate computed after a step for the next one.
NextLearningRate(s, g) == Schedule(s, g)

\* Faulty variant: the evaluation is due whatever the metric set.
EvalDueEveryFrequency(c, e) == e % c.eval_frequency = 0

\* len(metrics) > 0 and epoch % eval_frequency == 0
EvalDue(c, e) == c.metrics # {} /\ e % c.eval_frequency = 0

\* The generator and batch count the evaluation inside train uses.
EvalSource(c) == IF c.eval_dataset = "train" THEN "train" ELSE "val"
EvalBatches(c) == IF c.eval_dataset = "train" THEN c.steps_per_epoch ELSE c.val_steps

\* One training step; after the epoch's last step, on to the evaluation or
\* to the checkpoint.  The summaries written every summaries_frequency steps
\* change nothing of the state modelled here.
TrainStep ==
    /\ pc = "train_step"
    /\ \E b \in Batches :
        LET g == AdvanceGlobalStep(global_step)
            h == DequeAppend(loss_history, cfg.training_loss_display_averaging, b.loss)
        IN  /\ global_step' = g
            /\ g_step' = g
            /\ variables_updated' = TRUE
            /\ loss_history' = h
            /\ training_loss' = Mean(h)
            /\ learning_rate' = NextLearningRate(cfg.learning_rate_schedule, g)
            /\ loss_log' = Append(loss_log, b.loss)
    /\ fed' = [lr |-> learning_rate, g |-> global_step]
    /\ schedule_calls' = schedule_calls + 1
    /\ steps_done' = steps_done + 1
    /\ trained_since_save' = TRUE
    /\ pulls' = [pulls EXCEPT !.train = @ + 1]
    /\ train_step' = train_step + 1
    /\ IF train_step + 1 < cfg.steps_per_epoch
       THEN /\ pc' = "train_step"
            /\ UNCHANGED <<data_generator, num_batches>>
       ELSE IF EvalDue(cfg, epoch)
       THEN /\ pc' = "eval_reset"
            /\ data_generator' = EvalSource(cfg)
            /\ num_batches' = EvalBatches(cfg)
       ELSE /\ pc' = "save"
            /\ UNCHANGED <<data_generator, num_batches>>
    /\ UNCHANGED <<eval_dataset, metric_names, metric_values, best_metric_values,
                   best_training_loss, accum, artifacts, call, cfg, err, epoch,
                   eval_step, g_entry, calls, eval_log, eval_runs, evaluated,
                   decision, saved, latest_value>>

(* ------------------------------ _evaluate ------------------------------ *)

\* Faulty variant of the start of _evaluate: the loop body runs once before
\* num_batches is looked at.
EvalResetPullsFirst ==
    /\ pc = "eval_reset"
    /\ accum' = MetricsResetOp(accum)
    /\ eval_step' = 0
    /\ eval_log' = <<>>
    /\ eval_runs' = eval_runs + 1
    /\ evaluated' = TRUE
    /\ pc' = "eval_batch"
    /\ UNCHANGED <<global_step, g_step, variables_updated, eval_dataset, metric_names,
                   metric_values, best_metric_values, training_loss,
                   best_training_loss, artifacts, call, cfg, err, epoch, train_step,
                   learning_rate, loss_history, data_generator, num_batches,
                   g_entry, steps_done, loss_log, fed, schedule_calls, calls, pulls,
                   decision, saved, trained_since_save, latest_value>>

\* sess.run(self.metrics_reset_op), and the progress bar over num_batches.
EvalReset ==
    /\ pc = "eval_reset"
    /\ accum' = MetricsResetOp(accum)
    /\ eval_step' = 0
    /\ eval_log' = <<>>
    /\ eval_runs' = eval_runs + 1
    /\ evaluated' = TRUE
    /\ pc' = IF num_batches = 0 THEN "eval_read" ELSE "eval_batch"
    /\ UNCHANGED <<global_step, g_step, variables_updated, eval_dataset, metric_names,
                   metric_values, best_metric_values, training_loss,
                   best_training_loss, artifacts, call, cfg, err, epoch, train_step,
                   learning_rate, loss_history, data_generator, num_batches,
                   g_entry, steps_done, loss_log, fed, schedule_calls, calls, pulls,
                   decision, saved, trained_since_save, latest_value>>

\* The pull counter of the generator _evaluate reads.
PullCounter(gen) ==
    CASE gen = "train" -> "eval_train"
      [] gen = "val"   -> "eval_val"
      [] OTHER         -> "eval_data"

\* Faulty variant of the accumulation loop: train_op is run with the update ops.
EvalBatchTrains ==
    /\ pc = "eval_batch"
    /\ \E b \in Batches :
        /\ accum' = MetricUpdateOps(metric_names, accum, b)
        /\ eval_log' = Append(eval_log, b)
    /\ global_step' = global_step + 1
    /\ variables_updated' = TRUE
    /\ pulls' = [pulls EXCEPT ![PullCounter(data_generator)] = @ + 1]
    /\ eval_step' = eval_step + 1
    /\ pc' = IF eval_step + 1 < num_batches THEN "eval_batch" ELSE "eval_read"
    /\ UNCHANGED <<g_step, eval_dataset, metric_names,
                   metric_values, best_metric_values, training_loss,
                   best_training_loss, artifacts, call, cfg, err, epoch, train_step,
                   learning_rate, loss_history, data_generator, num_batches,
                   g_entry, steps_done, loss_log, fed, schedule_calls, calls,
                   eval_runs, evaluated, decision, saved, trained_since_save,
                   latest_value>>

\* One batch of the accumulation loop: next(data_generator), then the update ops.
EvalBatch ==
    /\ pc = "eval_batch"
    /\ \E b \in Batches :
        /\ accum' = MetricUpdateOps(metric_names, accum, b)
        /\ eval_log' = Append(eval_log, b)
    /\ pulls' = [pulls EXCEPT ![PullCounter(data_generator)] = @ + 1]
    /\ eval_step' = eval_step + 1
    /\ pc' = IF eval_step + 1 < num_batches THEN "eval_batch" ELSE "eval_read"
    /\ UNCHANGED <<global_step, g_step, variables_updated, eval_dataset, metric_names,
                   metric_values, best_metric_values, training_loss,
                   best_training_loss, artifacts, call, cfg, err, epoch, train_step,
                   learning_rate, loss_history, data_generator, num_batches,
                   g_entry, steps_done, loss_log, fed, schedule_calls, calls,
                   eval_runs, evaluated, decision, saved, trained_since_save,
                   latest_value>>

\* The final metric values are read (and printed, one per tracked name).
EvalRead ==
    /\ pc = "eval_read"
    /\ metric_values' = MetricValueTensors(metric_names, accum)
    /\ latest_value' = [m \in MetricKinds |->
                           IF m \in Range(metric_names) THEN MetricValue(m, accum)
                           ELSE latest_value[m]]
    /\ pc' = IF call = "train" THEN "save" ELSE "done"
    /\ UNCHANGED <<global_step, g_step, variables_updated, eval_dataset, metric_names,
                   best_metric_values, training_loss, best_training_loss, accum,
                   artifacts, call, cfg, err, epoch, train_step, learning_rate,
                   loss_history, data_generator, num_batches, eval_step,
                   g_entry, steps_done, loss_log, fed, schedule_calls, calls, pulls,
                   eval_log, eval_runs, evaluated, decision, saved,
                   trained_since_save>>

(* ------------------------- checkpoint and save ------------------------- *)

\* save_during_training and epoch % save_frequency == 0
SaveDue(c, e) == c.save_during_training /\ e % c.save_frequency = 0

\* Faulty variant of the save_best_only branch: monitor 'loss' always compares
\* the training loss, also when 'loss' is among the tracked metrics.
TrainingLossDecision(monitor, names, values, bests, tl, btl) ==
    IF monitor = "loss" THEN IF RLt(tl, btl) THEN "save" ELSE "skip"
    ELSE LET i == Index(names, monitor)
         IN  IF i = 0 THEN "ValueError: index"
             ELSE IF monitor \in {"accuracry", "mean_iou"}
                  THEN IF i > Len(values) THEN "IndexError"
                       ELSE IF RLt(bests[i], values[i]) THEN "save" ELSE "skip"
             ELSE "skip"

\* The save_best_only branch of train: "save", "skip", or the exception the
\* list accesses raise.
BestOnlyDecision(monitor, names, values, bests, tl, btl) ==
    IF monitor = "loss" /\ "loss" \notin Range(names) /\ RLt(tl, btl) THEN "save"
    ELSE LET i == Index(names, monitor)
         IN  IF i = 0 THEN "ValueError: index"
             ELSE IF monitor = "loss"
                  THEN IF i > Len(values) THEN "IndexError"
                       ELSE IF RLt(values[i], bests[i]) THEN "save" ELSE "skip"
             ELSE IF monitor \in {"accuracry", "mean_iou"}
                  THEN IF i > Len(values) THEN "IndexError"
                       ELSE IF RLt(bests[i], values[i]) THEN "save" ELSE "skip"
             ELSE "skip"

\* Faulty variant of the order of an epoch's phases: the best training loss
\* is updated with the epoch's training loss before the decision is taken.
CheckpointDecisionAfterUpdate(c, e) ==
    IF ~SaveDue(c, e) THEN "none"
    ELSE IF c.save_best_only
         THEN BestOnlyDecision(c.monitor, metric_names, metric_values,
                               best_metric_values, training_loss,
                               IF RLt(training_loss, best_training_loss)
                               THEN training_loss ELSE best_training_loss)
    ELSE "save"

\* The checkpoint decision of an epoch: "none" when no checkpoint is due.
CheckpointDecision(c, e) ==
    IF ~SaveDue(c, e) THEN "none"
    ELSE IF c.save_best_only
         THEN BestOnlyDecision(c.monitor, metric_names, metric_values,
                               best_metric_values, training_loss, best_training_loss)
    ELSE "save"

\* '{:.4f}'.format(x): x in ten-thousandths, rounded to the nearest.
Fmt4(x) == (2 * 10000 * x[1] + x[2]) \div (2 * x[2])

Part(text, value) == [part |-> text, value |-> value]

\* The value time.time() returns to save.
Timestamp == 1

\* The name save composes; timestamp stands for time.time().
ModelName(name, include_global_step, include_last_training_loss, include_metrics, timestamp) ==
    <<Part("saved_model", -1)>>
    \o (IF name # "" THEN <<Part(name, -1)>> ELSE <<>>)
    \o (IF include_global_step THEN <<Part("globalstep", g_step)>> ELSE <<>>)
    \o (IF include_last_training_loss
        THEN <<Part("trainloss", Fmt4(training_loss))>> ELSE <<>>)
    \o (IF include_metrics
        THEN <<Part(IF eval_dataset = "val" THEN "eval_on_val_dataset"
                    ELSE "eval_on_train_dataset", -1)>>
             \o [i \in 1..Len(metric_names) |->
                    Part(metric_names[i], Fmt4(metric_values[i]))]
        ELSE <<>>)
    \o (IF ~(include_global_step \/ include_last_training_loss \/ include_metrics)
           /\ name = ""
        THEN <<Part("timestamp", timestamp)>> ELSE <<>>)

\* Faulty variant of save: the variables-updated flag is not consulted.
SaveOutcomeUnguarded(include_last_training_loss, include_metrics) ==
    IF include_last_training_loss /\ training_loss = None THEN "TypeError"
    ELSE IF include_metrics /\ Len(metric_values) < Len(metric_names) THEN "IndexError"
    ELSE "saved"

\* How a call of save ends: "noop" (nothing to save), the exception raised
\* while the name is composed, or "saved".
SaveOutcome(include_last_training_loss, include_metrics) ==
    IF ~variables_updated THEN "noop"
    ELSE IF include_last_training_loss /\ training_loss = None THEN "TypeError"
    ELSE IF include_metrics /\ Len(metric_values) < Len(metric_names) THEN "IndexError"
    ELSE "saved"

\* The checkpoint part of an epoch: the decision and, when it is to save,
\* the call of save with the arguments train passes.
Checkpoint ==
    /\ pc = "save"
    /\ LET d == CheckpointDecision(cfg, epoch)
           include_metrics == Len(metric_names) > 0
           o == IF d = "save" THEN SaveOutcome(TRUE, include_metrics) ELSE "none"
       IN  /\ decision' = d
           /\ IF d \notin {"none", "save", "skip"}
              THEN /\ pc' = "raised"
                   /\ err' = d
                   /\ UNCHANGED <<variables_updated, artifacts, saved,
                                  trained_since_save>>
              ELSE IF o \in {"TypeError", "IndexError"}
              THEN /\ pc' = "raised"
                   /\ err' = o
                   /\ UNCHANGED <<variables_updated, artifacts, saved,
                                  trained_since_save>>
              ELSE IF o = "saved"
              THEN /\ pc' = "best"
                   /\ artifacts' = Append(artifacts,
                                          ModelName("", TRUE, TRUE, include_metrics,
                                                    Timestamp))
                   /\ variables_updated' = FALSE
                   /\ saved' = TRUE
                   /\ trained_since_save' = FALSE
                   /\ UNCHANGED err
              ELSE /\ pc' = "best"
                   /\ UNCHANGED <<variables_updated, artifacts, err, saved,
                                  trained_since_save>>
    /\ UNCHANGED <<global_step, g_step, eval_dataset, metric_names, metric_values,
                   best_metric_values, training_loss, best_training_loss, accum,
                   call, cfg, epoch, train_step, learning_rate, loss_history,
                   data_generator, num_batches, eval_step, g_entry, steps_done,
                   loss_log, fed, schedule_calls, calls, pulls, eval_log,
                   eval_runs, evaluated, latest_value>>

(* ----------------------------- best values ----------------------------- *)

\* Faulty variant of the update: the training loss of the epoch is stored
\* whether or not it is lower.
BestTrainingLossOverwritten(tl, btl) == tl

\* The best training loss after the update at the end of an epoch.
BestTrainingLoss(tl, btl) == IF RLt(tl, btl) THEN tl ELSE btl

\* The best value of the metric at index i after the update loop.
BestMetricValue(names, values, bests, i) ==
    IF names[i] = "loss" /\ RLt(values[i], bests[i]) THEN values[i]
    ELSE IF names[i] \in {"accuracry", "mean_iou"} /\ RLt(bests[i], values[i])
         THEN values[i]
    ELSE bests[i]

\* The update loop reads values[i] for 'loss' and 'mean_iou' only.
BestUpdateRaises(names, values) ==
    \E i \in 1..Len(names) : names[i] \in {"loss", "mean_iou"} /\ i > Len(values)

\* The end of an epoch: the best values are updated, then the next epoch
\* starts with a new loss window, or train returns.
BestUpdate ==
    /\ pc = "best"
    /\ best_training_loss' = BestTrainingLoss(training_loss, best_training_loss)
    /\ IF epoch % cfg.eval_frequency = 0 /\ BestUpdateRaises(metric_names, metric_values)
       THEN /\ pc' = "raised"
            /\ err' = "IndexError"
            /\ UNCHANGED <<best_metric_values, epoch, train_step, loss_history,
                           evaluated, decision, saved>>
       ELSE /\ best_metric_values' =
                  IF epoch % cfg.eval_frequency = 0
                  THEN [i \in 1..Len(metric_names) |->
                          BestMetricValue(metric_names, metric_values,
                                          best_metric_values, i)]
                  ELSE best_metric_values
            /\ UNCHANGED err
            /\ IF epoch < cfg.epochs
               THEN /\ pc' = "train_step"
                    /\ epoch' = epoch + 1
                    /\ train_step' = 0
                    /\ loss_history' = <<>>
                    /\ evaluated' = FALSE
                    /\ decision' = "none"
                    /\ saved' = FALSE
               ELSE /\ pc' = "done"
                    /\ UNCHANGED <<epoch, train_step, loss_history, evaluated,
                                   decision, saved>>
    /\ UNCHANGED <<global_step, g_step, variables_updated, eval_dataset, metric_names,
                   metric_values, training_loss, accum, artifacts, call, cfg,
                   learning_rate, data_generator, num_batches, eval_step, g_entry,
                   steps_done, loss_log, fed, schedule_calls, calls, pulls,
                   eval_log, eval_runs, trained_since_save, latest_value>>

(* ------------------------------- evaluate ------------------------------ *)

\* evaluate, from its entry to the call of _evaluate.
EvaluateCall ==
    /\ Idle
    /\ \E c \in EvaluateConfigs :
        /\ EnterCall("evaluate", c)
        /\ artifacts' = <<>>
        /\ IF ~ValidMetricNames(c.metrics)
           THEN /\ pc' = "raised"
                /\ err' = "ValueError: metric"
                /\ data_generator' = "none"
                /\ num_batches' = 0
                /\ UNCHANGED <<metric_names, best_metric_values>>
           ELSE /\ pc' = "eval_reset"
                /\ err' = "none"
                /\ data_generator' = "data"
                /\ num_batches' = c.num_batches
                /\ metric_names' = InitMetricNames(c.metrics)
                /\ best_metric_values' = InitBestMetricValues(c.metrics)
    /\ epoch' = 0
    /\ learning_rate' = 0
    /\ schedule_calls' = 0
    /\ UNCHANGED <<global_step, g_step, variables_updated, eval_dataset,
                   metric_values, training_loss, best_training_loss, accum,
                   trained_since_save, latest_value>>

(* --------------------------- predict and save -------------------------- *)

\* predict: the prediction tensors are run on the images; nothing of the
\* model's state changes.
PredictCall ==
    /\ Idle
    /\ EnterCall("predict", DefaultCfg)
    /\ pc' = "done"
    /\ err' = "none"
    /\ artifacts' = <<>>
    /\ data_generator' = "none"
    /\ num_batches' = 0
    /\ epoch' = 0
    /\ learning_rate' = 0
    /\ schedule_calls' = 0
    /\ UNCHANGED <<global_step, g_step, variables_updated, eval_dataset, metric_names,
                   metric_values, best_metric_values, training_loss,
                   best_training_loss, accum, trained_since_save, latest_value>>

\* save, called by the user of the model.
SaveCall ==
    /\ Idle
    /\ \E c \in SaveConfigs :
        LET o == SaveOutcome(c.include_last_training_loss, c.include_metrics)
        IN  /\ EnterCall("save", c)
            /\ IF o \in {"TypeError", "IndexError"}
               THEN /\ pc' = "raised"
                    /\ err' = o
                    /\ artifacts' = <<>>
                    /\ UNCHANGED <<variables_updated, trained_since_save>>
               ELSE IF o = "saved"
               THEN /\ pc' = "done"
                    /\ err' = "none"
                    /\ artifacts' = <<ModelName(c.name, c.include_global_step,
                                                c.include_last_training_loss,
                                                c.include_metrics, Timestamp)>>
                    /\ variables_updated' = FALSE
                    /\ trained_since_save' = FALSE
               ELSE /\ pc' = "done"
                    /\ err' = "none"
                    /\ artifacts' = <<>>
                    /\ UNCHANGED <<variables_updated, trained_since_save>>
    /\ data_generator' = "none"
    /\ num_batches' = 0
    /\ epoch' = 0
    /\ learning_rate' = 0
    /\ schedule_calls' = 0
    /\ UNCHANGED <<global_step, g_step, eval_dataset, metric_names, metric_values,
                   best_metric_values, training_loss, best_training_loss, accum,
                   latest_value>>

(* ---------------------------- specification ---------------------------- *)

Next ==
    \/ TrainCall
    \/ TrainStep
    \/ EvalReset
    \/ EvalBatch
    \/ EvalRead
    \/ Checkpoint
    \/ BestUpdate
    \/ EvaluateCall
    \/ PredictCall
    \/ SaveCall

Spec == Init /\ [][Next]_vars

(* ================================ claims ================================ *)

\* The last k elements of s (all of s when it has fewer).
LastK(s, k) == IF Len(s) <= k THEN s ELSE SubSeq(s, Len(s) - k + 1, Len(s))

\* The running call is a train call that passed the entry checks.
Training == call = "train" /\ (pc # "raised" \/ steps_done > 0)

\* C1: every training step advances the global step by exactly 1, so the
\* counter stands at its value at entry plus the steps executed, and at
\* entry plus epochs * steps_per_epoch when train returns; a later train
\* call continues from there, and evaluation leaves the counter alone.
C1_GlobalStepCount ==
    /\ call = "train" => global_step = g_entry + steps_done
    /\ call = "train" /\ pc = "done" =>
          global_step = g_entry + cfg.epochs * cfg.steps_per_epoch
    /\ call = "evaluate" => global_step = g_entry

\* C1 witness: a second train call, on a model trained before, has returned
\* after an evaluation run.
C1_Witness ==
    /\ call = "train" /\ pc = "done"
    /\ g_entry > 0 /\ steps_done > 0 /\ eval_runs > 0

\* C2 (as claimed): after every training step the tracked training loss is
\* the mean of the last K step losses of the train call, wherever in the
\* run they fall.
C2_TrailingWindowMean ==
    Training /\ steps_done > 0 =>
        training_loss = Mean(LastK(loss_log, cfg.training_loss_display_averaging))


\* The checkpoint part of the current epoch has taken its decision: the
\* state right after it, before the best values are updated.
AtCheckpointDecision ==
    call = "train" /\ decision # "none" /\ pc \in {"best", "raised"}

\* The monitored metric has a current value that strictly improves on its
\* best-known value: lower for 'loss', higher for 'mean_iou' and 'accuracy'.
\* Without 'loss' in the metric set the training loss stands for 'loss'.
MonitorImproved ==
    LET i == Index(metric_names, cfg.monitor)
    IN  IF cfg.monitor = "loss" /\ i = 0
        THEN RLt(training_loss, best_training_loss)
        ELSE /\ i >= 1
             /\ i <= Len(metric_values)
             /\ IF cfg.monitor = "loss"
                THEN RLt(metric_values[i], best_metric_values[i])
                ELSE RLt(best_metric_values[i], metric_values[i])

\* C3 (as claimed): on a save epoch in save-best-only mode the decision is
\* to save the model if and only if the monitored metric's current value
\* strictly improves on its best-known value, for each of the three monitor
\* names; an equal or worse value gives skip.
C3_SaveIffImproved ==
    AtCheckpointDecision /\ cfg.save_best_only =>
        /\ decision = "save" <=> MonitorImproved
        /\ saved => MonitorImproved

\* C4 (as claimed): with monitor 'loss' the checkpoint decision compares the
\* smoothed training loss against the best-known training loss, whether or
\* not 'loss' is in the metric set.
C4_LossMonitorUsesTrainingLoss ==
    AtCheckpointDecision /\ cfg.save_best_only /\ cfg.monitor = "loss"
    /\ decision \in {"save", "skip"}
    => (decision = "save" <=> RLt(training_loss, best_training_loss))

\* C4 (amended): with monitor 'loss' the decision is to save exactly when,
\* 'loss' being absent from the metric set, the smoothed training loss is
\* below the best-known training loss, or, 'loss' being in the metric set,
\* the stored value of the evaluated loss metric is below its best-known
\* value.
C4_LossMonitorCompares ==
    AtCheckpointDecision /\ cfg.save_best_only /\ cfg.monitor = "loss" =>
        (decision = "save" <=>
            IF "loss" \in cfg.metrics
            THEN /\ Len(metric_values) >= 1
                 /\ RLt(metric_values[1], best_metric_values[1])
            ELSE RLt(training_loss, best_training_loss))

\* C4 witness: 'loss' is monitored and evaluated; the evaluated loss improved
\* and the model was saved although the training loss did not improve.
C4_Witness ==
    /\ AtCheckpointDecision /\ cfg.save_best_only /\ cfg.monitor = "loss"
    /\ "loss" \in cfg.metrics
    /\ saved
    /\ ~RLt(training_loss, best_training_loss)

\* C5 (as claimed): with checkpoints enabled and save-best-only off, the
\* model is saved at every epoch with epoch mod save_frequency = 0 and at no
\* other, also when the save epoch comes before the first evaluation epoch.
C5_SavedAtEverySaveEpoch ==
    /\ call = "train" /\ cfg.save_during_training /\ ~cfg.save_best_only
    /\ pc = "best" \/ (pc = "raised" /\ steps_done > 0)
    => (saved <=> epoch % cfg.save_frequency = 0)


\* C6: the learning rate fed to a training step is the schedule's value at
\* the global step before that step: the schedule is called once at entry
\* and once after every step, with the global step of that moment, and the
\* rate it returns is used by the following step.
C6_LearningRateLag ==
    Training =>
        /\ schedule_calls = steps_done + 1
        /\ learning_rate = Schedule(cfg.learning_rate_schedule, g_entry + steps_done)
        /\ steps_done > 0 =>
              /\ fed.g = g_entry + steps_done - 1
              /\ fed.lr = Schedule(cfg.learning_rate_schedule, fed.g)

\* C6 witness: two steps were executed under a schedule whose rate changed
\* between them.
C6_Witness ==
    /\ Training /\ steps_done >= 2
    /\ fed.lr # Schedule(cfg.learning_rate_schedule, g_entry)
    /\ fed.lr # learning_rate

\* The epochs among 1..e after which train evaluates, by the claimed rule.
EvalEpochs(c, e) ==
    Cardinality({k \in 1..e : c.metrics # {} /\ k % c.eval_frequency = 0})

\* The evaluation batches train has pulled when e epochs' evaluations are over.
EvalPullsAfter(c, e) ==
    EvalEpochs(c, e) * (IF c.eval_dataset = "train" THEN c.steps_per_epoch
                        ELSE c.val_steps)

C7_State ==
    Training =>
        /\ pulls.eval_data = 0
        /\ cfg.eval_dataset = "train" => pulls.eval_val = 0
        /\ cfg.eval_dataset = "val" => pulls.eval_train = 0
        /\ pc = "train_step" =>
              /\ ~evaluated
              /\ pulls.eval_train + pulls.eval_val = EvalPullsAfter(cfg, epoch - 1)
        /\ pc \in {"save", "best", "done", "raised"} =>
              /\ evaluated <=> (cfg.metrics # {} /\ epoch % cfg.eval_frequency = 0)
              /\ pulls.eval_train + pulls.eval_val = EvalPullsAfter(cfg, epoch)

\* C7: during train an evaluation run happens after an epoch if and only if
\* epoch mod eval_frequency = 0 and the metric set is not empty; it pulls its
\* batches from the training generator with eval_dataset 'train' and from the
\* validation generator with 'val'; after any other epoch no evaluation batch
\* is pulled and the stored metric values stay as they are.
C7_EvaluationEpochs ==
    /\ []C7_State
    /\ [][Training /\ pc # "eval_read" => metric_values' = metric_values]_vars

\* C7 witness: a train call of two epochs evaluating on the validation
\* generator has returned, having evaluated after the second epoch only.
C7_Witness ==
    /\ call = "train" /\ pc = "done" /\ cfg.eval_dataset = "val"
    /\ cfg.epochs = 2 /\ cfg.eval_frequency = 2
    /\ eval_runs = 1 /\ pulls.eval_val > 0

\* The accumulators after folding the batches of log, in order, from reset.
RECURSIVE FoldBatches(_, _)
FoldBatches(names, log) ==
    IF log = <<>> THEN ZeroAccum
    ELSE MetricUpdateOps(names, FoldBatches(names, SubSeq(log, 1, Len(log) - 1)),
                         log[Len(log)])

\* An evaluation run of the running call has read its metric values.
EvaluationRead ==
    \/ call = "evaluate" /\ pc = "done"
    \/ call = "train" /\ evaluated /\ pc \in {"save", "best", "done", "raised"}

\* C8: an evaluation run first resets the accumulators, then pulls exactly
\* num_batches batches, one per update, and reads the metric values after
\* the last one: the values are those of this run's batches alone.
C8_EvaluationRun ==
    /\ pc = "eval_batch" =>
          /\ eval_step < num_batches
          /\ Len(eval_log) = eval_step
          /\ accum = FoldBatches(metric_names, eval_log)
    /\ pc = "eval_read" =>
          /\ Len(eval_log) = num_batches
          /\ accum = FoldBatches(metric_names, eval_log)
    /\ EvaluationRead =>
          /\ Len(eval_log) = num_batches
          /\ metric_values =
                MetricValueTensors(metric_names, FoldBatches(metric_names, eval_log))
    /\ call = "evaluate" => pulls.eval_data = Len(eval_log)

\* C8 witness: the second evaluation run of a train call has read the values
\* of a batch that differs from the first run's.
C8_Witness ==
    /\ call = "train" /\ pc = "best" /\ eval_runs = 2
    /\ metric_names = <<"loss">>
    /\ eval_log = <<BatchA>>
    /\ best_metric_values = <<<<3, 1>>>>

\* C9: an evaluation run leaves the training state as it is: no step of
\* _evaluate, inside train or under evaluate, and no entry of evaluate
\* changes the global step, the learning rate, the loss window, the smoothed
\* and the best training loss or the variables-updated flag.
C9_EvaluationFrame ==
    [][/\ pc \in {"eval_reset", "eval_batch", "eval_read"} =>
             UNCHANGED <<global_step, g_step, learning_rate, loss_history,
                         training_loss, best_training_loss, variables_updated>>
       /\ calls' # calls /\ call' = "evaluate" =>
             UNCHANGED <<global_step, g_step, training_loss, best_training_loss,
                         variables_updated>>]_vars

\* C9 witness: evaluate has run over batches on a model trained and not
\* saved since.
C9_Witness ==
    /\ call = "evaluate" /\ pc = "done" /\ eval_step > 0
    /\ global_step > 0 /\ variables_updated /\ training_loss # None

C10_State ==
    call \in {"train", "evaluate"} /\ ~(cfg.metrics \subseteq MetricKinds) =>
        /\ pc = "raised"
        /\ err \in {"ValueError: eval_dataset", "ValueError: val_generator",
                    "ValueError: metric"}
        /\ steps_done = 0
        /\ pulls = [train |-> 0, eval_train |-> 0, eval_val |-> 0, eval_data |-> 0]
        /\ global_step = g_entry

\* C10: a train or evaluate call whose metric set holds a name outside
\* 'loss', 'mean_iou', 'accuracy' raises a configuration error before any
\* batch is pulled or any training step executed, and leaves the tracked
\* metrics, the global step and the variables-updated flag as they were.
C10_UnknownMetricRaises ==
    /\ []C10_State
    /\ [][calls' # calls /\ ~(cfg'.metrics \subseteq MetricKinds) =>
             UNCHANGED <<metric_names, metric_values, best_metric_values,
                         global_step, variables_updated>>]_vars

\* C10 witness: a train call asking for metric 'foo' has raised on a model
\* that was trained, with metrics tracked, by the call before.
C10_Witness ==
    /\ call = "train" /\ pc = "raised" /\ err = "ValueError: metric"
    /\ "foo" \in cfg.metrics
    /\ metric_names # <<>> /\ variables_updated /\ global_step > 0


\* The entry conditions (a), (b) and (c) of train, on the call's arguments.
BadEvalDataset(c) == c.eval_dataset \notin {"train", "val"}
MissingValidation(c) == c.eval_dataset = "val" /\ (~c.val_generator \/ c.val_steps = 0)
BadMonitor(c) == c.monitor # "loss" /\ c.monitor \notin c.metrics

\* The configuration errors train raises at entry.
EntryErrors == {"ValueError: eval_dataset", "ValueError: val_generator",
                "ValueError: metric", "ValueError: monitor"}

C11_State ==
    call = "train" =>
        /\ BadEvalDataset(cfg) \/ MissingValidation(cfg) \/ BadMonitor(cfg) =>
              /\ pc = "raised" /\ err \in EntryErrors
              /\ steps_done = 0
              /\ pulls = [train |-> 0, eval_train |-> 0, eval_val |-> 0, eval_data |-> 0]
              /\ global_step = g_entry
        /\ ~BadEvalDataset(cfg) /\ ~MissingValidation(cfg) /\ ~BadMonitor(cfg)
           /\ cfg.metrics \subseteq MetricKinds =>
              /\ err \notin EntryErrors
              /\ pc = "raised" => steps_done > 0

\* C11: train raises a configuration error, before any training step and any
\* pull, when eval_dataset is neither 'train' nor 'val', when it is 'val'
\* without a validation generator or without val_steps, or when the monitor
\* is neither 'loss' nor in the metric set; a call with none of these and
\* with valid metric names raises no configuration error at entry.
C11_EntryChecks ==
    /\ []C11_State
    /\ [][calls' # calls /\ call' = "train" /\ pc' = "raised" =>
             UNCHANGED <<global_step, variables_updated, eval_dataset, metric_names,
                         metric_values, best_metric_values, training_loss,
                         best_training_loss>>]_vars

\* C11 witness: on a trained model, a train call with valid metric names and
\* a valid evaluation dataset has raised because its monitor is not in the
\* metric set.
C11_Witness ==
    /\ call = "train" /\ pc = "raised" /\ err = "ValueError: monitor"
    /\ cfg.eval_dataset = "train" /\ cfg.metrics = {"loss"} /\ cfg.monitor = "mean_iou"
    /\ global_step > 0


\* A step that writes a model: an artifact is added to those of the call.
WritesModel == artifacts' # artifacts /\ artifacts' # <<>>

\* C12: save persists nothing and raises nothing when no training step has
\* run since the last model written (or since construction): the
\* variables-updated flag is set by every training step, cleared by every
\* save that writes a model, and left alone by evaluate and predict, so a
\* model is written only after a training step that no save has covered.
C12_SaveNoOp ==
    /\ [](variables_updated <=> trained_since_save)
    /\ [][/\ WritesModel => trained_since_save /\ ~variables_updated'
          /\ calls' # calls /\ call' = "save" /\ ~trained_since_save =>
                /\ artifacts' = <<>> /\ pc' = "done" /\ err' = "none"
                /\ UNCHANGED variables_updated
          /\ pc = "train_step" => variables_updated'
          /\ \/ pc \in {"eval_reset", "eval_batch", "eval_read"}
             \/ calls' # calls /\ call' \in {"evaluate", "predict"}
             => UNCHANGED variables_updated]_vars

\* C12 witness: save was called on a model that train had trained and saved
\* at its last epoch, and has returned without writing a model.
C12_Witness ==
    /\ call = "save" /\ pc = "done" /\ artifacts = <<>>
    /\ global_step > 0 /\ ~variables_updated


\* The better of a metric's best-known value and a new value: the lower for
\* 'loss', the higher for 'mean_iou' and 'accuracy'.
Better(name, best, value) ==
    IF name = "loss" THEN (IF RLt(value, best) THEN value ELSE best)
    ELSE (IF RLt(best, value) THEN value ELSE best)

\* C13 (as claimed): the update at the end of an evaluation epoch leaves each
\* tracked metric's best-known value at the better of its previous best and
\* the value just evaluated, which by induction is the best of the initial
\* value and all values evaluated so far in the call; the update at the end
\* of any other epoch, and every other step of the call, leaves the best
\* values as they are.
C13_BestMetricValues ==
    [][/\ pc = "best" /\ pc' \in {"train_step", "done"} =>
             IF evaluated
             THEN /\ Len(best_metric_values') = Len(metric_names)
                  /\ \A i \in 1..Len(metric_names) :
                        best_metric_values'[i] =
                            Better(metric_names[i], best_metric_values[i],
                                   metric_values[i])
             ELSE best_metric_values' = best_metric_values
       /\ Training /\ calls' = calls /\ pc # "best" =>
             best_metric_values' = best_metric_values]_vars


\* C14: the update that ends every epoch, whatever the checkpoint part of
\* the epoch did, leaves the best-known training loss at the minimum of its
\* previous value and the epoch's smoothed training loss; no other step
\* changes it, so it never increases.
C14_BestTrainingLoss ==
    [][/\ pc = "best" =>
             best_training_loss' = IF RLt(training_loss, best_training_loss)
                                   THEN training_loss ELSE best_training_loss
       /\ pc # "best" => best_training_loss' = best_training_loss
       /\ ~RLt(best_training_loss, best_training_loss')
       /\ pc = "save" /\ pc' # "raised" => pc' = "best"]_vars

\* C14 witness: train has returned after two epochs; the second was a save
\* epoch whose decision was to skip, and its training loss is above the best.
C14_Witness ==
    /\ call = "train" /\ pc = "done" /\ cfg.epochs = 2
    /\ decision = "skip"
    /\ RLt(best_training_loss, training_loss)


\* C15 (as claimed): a train call that passed the entry checks runs all its
\* epochs, whatever the step losses and metric values: nothing ends it
\* before it returns, it pulls one training batch per step, and at its
\* return it has executed epochs * steps_per_epoch steps.
C15_RunsAllEpochs ==
    Training =>
        /\ pc # "raised"
        /\ pulls.train = steps_done
        /\ steps_done <= cfg.epochs * cfg.steps_per_epoch
        /\ pc = "done" =>
              /\ epoch = cfg.epochs
              /\ steps_done = cfg.epochs * cfg.steps_per_epoch


\* The pixels of the batches of an evaluation run, and the pixels among them
\* whose predicted class is the labelled class.
TotalPixels(log) == SeqSum([i \in 1..Len(log) |-> log[i].n])
CorrectPixels(log) ==
    SeqSum([i \in 1..Len(log) |->
               SeqSum([c \in 1..NumClasses |-> log[i].cm[c][c]])])

\* The value an evaluation run has read for the tracked metric `name`.
ReadValue(name) == metric_values[Index(metric_names, name)]

\* An evaluation run over at least one batch has read the value of `name`.
HasRead(name) ==
    EvaluationRead /\ name \in Range(metric_names) /\ eval_log # <<>>

\* C16 (as claimed): the evaluated mean loss is the mean of the batches'
\* losses weighted by the batches' sample counts, i.e. the loss averaged
\* over all samples of the run, whatever the batch sizes.
C16_LossWeightedBySamples ==
    HasRead("loss") =>
        ReadValue("loss") =
            Rat(SeqSum([i \in 1..Len(eval_log) |-> eval_log[i].n * eval_log[i].loss]),
                TotalPixels(eval_log))

\* C17: the evaluated accuracy is the number of correctly predicted pixels of
\* all batches of the run over the number of all their pixels.
C17_AccuracyOverAllPixels ==
    HasRead("accuracy") =>
        ReadValue("accuracy") = Rat(CorrectPixels(eval_log), TotalPixels(eval_log))

\* C17 witness: the accuracy was read after two batches of unequal size,
\* 1 of 1 and 2 of 3 pixels correct: it is 3/4, where the average of the two
\* batches' accuracies is 5/6.
C17_Witness ==
    /\ HasRead("accuracy")
    /\ eval_log = <<BatchA, BatchB>>
    /\ ReadValue("accuracy") = <<3, 4>>


\* The confusion matrix of all batches of an evaluation run: entry [i][j]
\* counts the pixels labelled i and predicted j.
TotalConfusion(log) ==
    [i \in 1..NumClasses |->
        [j \in 1..NumClasses |-> SeqSum([k \in 1..Len(log) |-> log[k].cm[i][j]])]]

TruePositives(cm, c) == cm[c][c]
FalsePositives(cm, c) == SeqSum([i \in 1..NumClasses |-> cm[i][c]]) - cm[c][c]
FalseNegatives(cm, c) == SeqSum([j \in 1..NumClasses |-> cm[c][j]]) - cm[c][c]
ClassUnion(cm, c) ==
    TruePositives(cm, c) + FalsePositives(cm, c) + FalseNegatives(cm, c)

\* The classes 1..c with a non-zero union, and the sum of their IoUs.
ValidClasses(cm, c) == {k \in 1..c : ClassUnion(cm, k) # 0}
RECURSIVE SumClassIou(_, _)
SumClassIou(cm, c) ==
    IF c = 0 THEN <<0, 1>>
    ELSE IF ClassUnion(cm, c) = 0 THEN SumClassIou(cm, c - 1)
    ELSE RAdd(SumClassIou(cm, c - 1), Rat(TruePositives(cm, c), ClassUnion(cm, c)))

\* C18: the evaluated mean IoU is computed from the one confusion matrix of
\* all batches of the run: the mean, over the classes whose union is not
\* zero, of TP / (TP + FP + FN).
C18_MeanIouOfTotalConfusion ==
    HasRead("mean_iou") =>
        LET cm == TotalConfusion(eval_log)
            valid == Cardinality(ValidClasses(cm, NumClasses))
            s == SumClassIou(cm, NumClasses)
        IN  /\ valid > 0
            /\ ReadValue("mean_iou") = Rat(s[1], s[2] * valid)

\* C18 witness: the mean IoU was read after two batches whose summed
\* confusion matrix gives the classes IoU 2/3 and 1/2, mean 7/12, where the
\* average of the two batches' own mean IoUs is 3/4.
C18_Witness ==
    /\ HasRead("mean_iou")
    /\ eval_log = <<BatchA, BatchB>>
    /\ ReadValue("mean_iou") = <<7, 12>>


\* A save has just written a model: the state right after the checkpoint of
\* a train epoch or after a call of save, and the arguments it was given.
JustSaved ==
    \/ call = "train" /\ pc = "best" /\ saved
    \/ call = "save" /\ pc = "done" /\ artifacts # <<>>
SaveArgs ==
    IF call = "save" THEN cfg
    ELSE [DefaultCfg EXCEPT !.name = "", !.include_global_step = TRUE,
                            !.include_last_training_loss = TRUE,
                            !.include_metrics = metric_names # <<>>]

\* x to 4 decimals, in ten-thousandths; -2 when there is no value.
Decimals4(x) ==
    IF x = None THEN -2 ELSE (2 * 10000 * x[1] + x[2]) \div (2 * x[2])

\* The name as claimed, each tracked metric with its own latest value.
ClaimedName(a) ==
    <<[part |-> "saved_model", value |-> -1]>>
    \o (IF a.name # "" THEN <<[part |-> a.name, value |-> -1]>> ELSE <<>>)
    \o (IF a.include_global_step
        THEN <<[part |-> "globalstep", value |-> global_step]>> ELSE <<>>)
    \o (IF a.include_last_training_loss
        THEN <<[part |-> "trainloss", value |-> Decimals4(training_loss)]>>
        ELSE <<>>)
    \o (IF a.include_metrics
        THEN <<[part |-> IF eval_dataset = "val" THEN "eval_on_val_dataset"
                         ELSE "eval_on_train_dataset", value |-> -1]>>
             \o [i \in 1..Len(metric_names) |->
                    [part |-> metric_names[i],
                     value |-> Decimals4(latest_value[metric_names[i]])]]
        ELSE <<>>)
    \o (IF ~a.include_global_step /\ ~a.include_last_training_loss
           /\ ~a.include_metrics /\ a.name = ""
        THEN <<[part |-> "timestamp", value |-> Timestamp]>> ELSE <<>>)

\* C19 (as claimed): the name of a saved model is 'saved_model', the explicit
\* name if given, the global step if requested, the training loss to 4
\* decimals if requested and, if metrics are requested, the marker of the
\* evaluation data source and each tracked metric's name with that metric's
\* latest value to 4 decimals, in this order; a timestamp is appended exactly
\* when none of the three is requested and no name is given.
C19_ArtifactName ==
    JustSaved => artifacts[Len(artifacts)] = ClaimedName(SaveArgs)


\* C20: an evaluation run with num_batches = 0 pulls no batch and raises no
\* error, and the value it reads for every requested metric is the value of
\* the accumulators right after the reset, 0, the same on every such run.
C20_EmptyEvaluation ==
    call = "evaluate" /\ cfg.num_batches = 0 /\ cfg.metrics \subseteq MetricKinds =>
        /\ pc \in {"eval_reset", "eval_read", "done"}
        /\ err = "none"
        /\ pulls = [train |-> 0, eval_train |-> 0, eval_val |-> 0, eval_data |-> 0]
        /\ pc = "done" =>
              /\ Len(metric_values) = Cardinality(cfg.metrics)
              /\ \A i \in 1..Len(metric_values) : metric_values[i] = <<0, 1>>

\* C20 witness: evaluate over no batch has read the three metrics on a model
\* that was trained before.
C20_Witness ==
    /\ call = "evaluate" /\ pc = "done" /\ cfg.num_batches = 0
    /\ cfg.metrics = MetricKinds
    /\ metric_values = <<<<0, 1>>, <<0, 1>>, <<0, 1>>>>
    /\ global_step > 0


\* C21 (as claimed): in a train call with checkpoints and save-best-only on,
\* the checkpoint decision of every save epoch is 'save' or 'skip' and the
\* epoch goes on to its end: no save epoch raises, neither when the monitored
\* value has not improved nor when no evaluation has run yet.
C21_DecisionSaveOrSkip ==
    Training /\ cfg.save_during_training /\ cfg.save_best_only =>
        /\ pc # "raised"
        /\ decision \in {"none", "save", "skip"}
        /\ pc = "best" /\ epoch % cfg.save_frequency = 0 =>
              decision \in {"save", "skip"}


\* The running call is about to read, or has just read, the tracked metric
\* lists: the checkpoint of a save epoch (decision and naming), the update
\* of the best values on an epoch that is a multiple of eval_frequency, a
\* save that puts the metrics into the name, and the printing of the values
\* an evaluation run has read.
MetricListsRead ==
    \/ call = "train" /\ pc = "save" /\ SaveDue(cfg, epoch)
    \/ call = "train" /\ pc = "best" /\ epoch % cfg.eval_frequency = 0
    \/ call = "save" /\ pc \in {"done", "raised"} /\ cfg.include_metrics
       /\ (artifacts # <<>> \/ pc = "raised")
    \/ call = "evaluate" /\ pc = "done"

\* The metric names in the fixed order loss, mean_iou, accuracy.
OrderedNames(names) ==
    \A i, j \in 1..Len(names) :
        i < j => /\ names[i] # names[j]
                 /\ names[i] = "loss" \/ names[j] = "accuracy"

\* C22 (as claimed): whenever the tracked metric lists are read they have
\* equal length and the same order, with unique names in the order loss,
\* mean_iou, accuracy, and the value at each index is the latest value
\* evaluated for the metric named at that index, evaluated in the running
\* call when that call evaluates.
C22_MetricListsInStep ==
    MetricListsRead =>
        /\ Len(metric_values) = Len(metric_names)
        /\ Len(best_metric_values) = Len(metric_names)
        /\ OrderedNames(metric_names)
        /\ \A i \in 1..Len(metric_names) :
              /\ i <= Len(metric_values)
              /\ metric_values[i] = latest_value[metric_names[i]]
        /\ call \in {"train", "evaluate"} /\ metric_names # <<>> => eval_runs > 0


\* The phase of the running epoch, by the position of the call.
C23_State ==
    Training /\ pc # "done" =>
        LET after_steps == steps_done = epoch * cfg.steps_per_epoch
            eval_due == cfg.metrics # {} /\ epoch % cfg.eval_frequency = 0
            save_due == cfg.save_during_training /\ epoch % cfg.save_frequency = 0
            eval_pulls == pulls.eval_train + pulls.eval_val
            batches == IF cfg.eval_dataset = "train" THEN cfg.steps_per_epoch
                       ELSE cfg.val_steps
        IN  /\ pc = "train_step" =>
                  /\ train_step < cfg.steps_per_epoch
                  /\ steps_done = (epoch - 1) * cfg.steps_per_epoch + train_step
                  /\ ~evaluated /\ decision = "none" /\ ~saved
                  /\ eval_pulls = eval_runs * batches
            /\ pc \in {"eval_reset", "eval_batch", "eval_read"} =>
                  /\ after_steps /\ eval_due
                  /\ decision = "none" /\ ~saved
            /\ pc = "save" =>
                  /\ after_steps /\ (evaluated <=> eval_due)
                  /\ decision = "none" /\ ~saved
                  /\ eval_pulls = eval_runs * batches
            /\ pc \in {"best", "raised"} =>
                  /\ after_steps /\ (evaluated <=> eval_due)
                  /\ (decision # "none" <=> save_due)
                  /\ saved => decision = "save"
            \* the decision was taken against the best values of before the epoch
            /\ pc \in {"best", "raised"} /\ cfg.save_best_only /\ save_due =>
                  /\ cfg.monitor = "loss" /\ "loss" \notin cfg.metrics =>
                        (decision = "save" <=> RLt(training_loss, best_training_loss))
                  /\ cfg.monitor = "mean_iou" /\ evaluated =>
                        LET i == Index(metric_names, "mean_iou")
                        IN  decision = "save" <=>
                               RLt(best_metric_values[i], metric_values[i])

\* C23: every epoch of train runs its phases in the order: all
\* steps_per_epoch training steps, the evaluation run if due, the checkpoint
\* decision and save if due, the update of the best values.  The decision is
\* therefore taken against best values that do not include the epoch, and
\* the evaluation pulls of an epoch fall between the epoch's last training
\* pull and the next epoch's first.
C23_EpochPhases ==
    /\ []C23_State
    /\ [][Training /\ calls' = calls =>
             /\ pc # "best" =>
                   UNCHANGED <<best_metric_values, best_training_loss>>
             /\ pulls'.train # pulls.train => pc = "train_step"
             /\ pulls'.eval_train # pulls.eval_train \/ pulls'.eval_val # pulls.eval_val
                   => pc = "eval_batch"
             /\ pc = "train_step" =>
                   pc' \in {"train_step", "eval_reset", "save"}
             /\ pc \in {"eval_reset", "eval_batch", "eval_read"} =>
                   pc' \in {"eval_batch", "eval_read", "save"}
             /\ pc = "save" => pc' \in {"best", "raised"}
             /\ pc = "best" => pc' \in {"train_step", "done", "raised"}
             /\ pc = "best" /\ pc' = "train_step" => epoch' = epoch + 1]_vars

\* C23 witness: a train call of two epochs that evaluates on the training
\* generator after each has returned; its second epoch's checkpoint decided
\* to save in save-best-only mode.
C23_Witness ==
    /\ call = "train" /\ pc = "done" /\ cfg.epochs = 2
    /\ cfg.eval_dataset = "train" /\ eval_runs = 2 /\ pulls.eval_train = 2
    /\ cfg.save_best_only /\ decision = "save" /\ saved

====
